---- MODULE Spec2Model ----
(***************************************************************************)
(* deterministic-bloom: the deterministic index generator                  *)
(* (HashIndexIterator), the compile-time sized filter                      *)
(* (const_size::BloomFilter<N, K>), the runtime sized filter               *)
(* (runtime_size::BloomFilter) and the crate root's older copies of both   *)
(* (lib.rs: BloomFilter<N, K>, DynBloomFilter and a HashIndexIterator      *)
(* without the zero-length guard).                                         *)
(***************************************************************************)
EXTENDS Integers, Sequences, FiniteSets, TLC

\* ------------------------------------------------------------------ bounds
\* Largest byte size N of a filter (N = 3 is the first non power of two bit length).
MaxN == 3
\* Largest number of hash rounds K per item.
MaxK == 2
\* Largest value of the iterator's round counter (u64 in the code).
MaxRound == 5
\* The hash function is one of MaxSalt + 1 members of a family.
MaxSalt == 1
\* Largest number of completed inserts per filter when two filters run side by side.
MaxInserts == 2
\* Largest target capacity n_elems handed to new_from_size.
MaxElems == 12
\* Width of the hash value (64 in the code).
HashBits == 6

\* ------------------------------------------------------- program constants
\* Bits per byte: `N * 8`, `self.bytes.len() * 8`.
ByteBits == 8

RECURSIVE Pow2(_)
Pow2(n) == IF n = 0 THEN 1 ELSE 2 * Pow2(n - 1)

HashSpace == Pow2(HashBits)
\* usize is as wide as the hash on a 64 bit target.
UsizeBits == HashBits

\* Items are byte strings (T: AsRef<[u8]>).
Items == {<<1>>, <<2>>, <<1, 2>>}

\* Byte values of externally supplied buffers (try_from, new_with).
ByteVals == {0, 165}
ByteSeqs(n) == [1..n -> ByteVals]

VARIABLES
    salt,       \* which member of the hash family xxh3 is
    f,          \* the filter under test
    born,       \* as_bytes().len(), hash_count(), count_ones() right after construction
    inserted,   \* items whose insert has returned, with multiplicity
    status,     \* "idle", or "spinning": a call is still in the rejection loop
    res,        \* the last call and what it returned
    pair,       \* two filters built alike and driven side by side
    cur         \* one HashIndexIterator driven call by call, turn by turn

vars == <<salt, f, born, inserted, status, res, pair, cur>>

\* ------------------------------------------------------------- the hash
RECURSIVE absorb(_, _)
absorb(acc, input) ==
    IF input = <<>> THEN acc
    ELSE absorb((acc * 31 + Head(input) + 7) % HashSpace, Tail(input))

\* xxh3 is an external crate. The filters only need it to be a fixed function of
\* (bytes, seed) with a result of HashBits bits: it is taken here as member s of a
\* family of such functions, s being fixed for the whole run.
hash_family(s, input, seed) ==
    LET a == absorb((seed * 29 + s * 17 + 5) % HashSpace, input)
    IN  (a * 13 + (a \div 8) + 3 * seed) % HashSpace

\* xxh3::xxh3_64_with_seed(input, seed)
xxh3_64_with_seed(input, seed) == hash_family(salt, input, seed)

\* `hash as usize`
as_usize(h) == h % Pow2(UsizeBits)

RECURSIVE po2_from(_, _)
po2_from(p, n) == IF p >= n THEN p ELSE po2_from(2 * p, n)
\* usize::next_power_of_two: the smallest power of two >= n (1 for 0).
next_power_of_two(n) == po2_from(1, n)

\* ------------------------------------------------------ HashIndexIterator
\* gen: "common" is common.rs, "lib" is the crate root's copy.
HashIndexIterator_new(gen, item, bit_size) ==
    [gen |-> gen, item |-> item, bit_size |-> bit_size, index |-> 0]

Some(it, v) == [tag |-> "Some", value |-> v, it |-> it]
None(it) == [tag |-> "None", value |-> 0, it |-> it]
\* The call has not returned: it is still rejecting at the round bound.
Spin(it) == [tag |-> "Spin", value |-> 0, it |-> it]

\* A turn that reduces modulo the power of two and never rejects.
attempt_unrejected(it) ==
    LET hash == as_usize(xxh3_64_with_seed(it.item, it.index))
        value == hash % next_power_of_two(it.bit_size)
    IN  [it |-> [it EXCEPT !.index = @ + 1], value |-> value, accepted |-> TRUE]

\* A turn whose seed is a counter shared by all iterators, not the iterator's own.
attempt_shared_counter(it) ==
    LET hash == as_usize(xxh3_64_with_seed(it.item, cur.calls))
        value == hash % next_power_of_two(it.bit_size)
    IN  [it |-> [it EXCEPT !.index = @ + 1],
         value |-> value,
         accepted |-> value < it.bit_size]

\* A turn that advances the round only when it rejects: an accepted round is
\* used again by the next call.
attempt_reuse_accepted(it) ==
    LET hash == as_usize(xxh3_64_with_seed(it.item, it.index))
        value == hash % next_power_of_two(it.bit_size)
    IN  [it |-> [it EXCEPT !.index = IF value < it.bit_size THEN @ ELSE @ + 1],
         value |-> value,
         accepted |-> value < it.bit_size]

\* One turn of the loop of next(): hash, advance the round, reduce, test.
attempt(it) ==
    LET hash == as_usize(xxh3_64_with_seed(it.item, it.index))
        value == hash % next_power_of_two(it.bit_size)
    IN  [it |-> [it EXCEPT !.index = @ + 1],
         value |-> value,
         accepted |-> value < it.bit_size]

RECURSIVE rejection_loop(_)
rejection_loop(it) ==
    IF it.index >= MaxRound THEN Spin(it)
    ELSE LET a == attempt(it)
         IN  IF a.accepted THEN Some(a.it, a.value) ELSE rejection_loop(a.it)

\* common.rs: HashIndexIterator::next
next(it) == IF it.bit_size = 0 THEN None(it) ELSE rejection_loop(it)

RECURSIVE accepted_rounds(_, _, _)
\* The values `hash % bit_size_po2` of rounds 0 .. rounds - 1 that are below
\* bit_size, in the order of the rounds.
accepted_rounds(item, bit_size, rounds) ==
    IF rounds = 0 THEN <<>>
    ELSE LET before == accepted_rounds(item, bit_size, rounds - 1)
             value == xxh3_64_with_seed(item, rounds - 1) % next_power_of_two(bit_size)
         IN  IF value < bit_size THEN Append(before, value) ELSE before

\* lib.rs: HashIndexIterator::next (no bit_size == 0 guard)
lib_next(it) == rejection_loop(it)

iter_next(it) == IF it.gen = "common" THEN next(it) ELSE lib_next(it)

\* ------------------------------------------------------------ bit access
\* bitvec, Lsb0: bit i lives in byte i / 8 at position i % 8, least significant first.
bit(bytes, i) == (bytes[(i \div ByteBits) + 1] \div Pow2(i % ByteBits)) % 2 = 1

\* A write that flips the bit instead of setting it.
toggle(bytes, i) ==
    IF bit(bytes, i)
    THEN [bytes EXCEPT ![(i \div ByteBits) + 1] = @ - Pow2(i % ByteBits)]
    ELSE [bytes EXCEPT ![(i \div ByteBits) + 1] = @ + Pow2(i % ByteBits)]

\* A write that sets bit 0 along with the bit asked for.
set_and_first(bytes, i) ==
    LET b == IF bit(bytes, 0) THEN bytes ELSE [bytes EXCEPT ![1] = @ + 1]
    IN  IF bit(b, i) THEN b
        ELSE [b EXCEPT ![(i \div ByteBits) + 1] = @ + Pow2(i % ByteBits)]

\* BitSlice::set(i, true)
set(bytes, i) ==
    IF bit(bytes, i) THEN bytes
    ELSE [bytes EXCEPT ![(i \div ByteBits) + 1] = @ + Pow2(i % ByteBits)]

\* The indices of the bits that are 1.
set_bits(bytes) == {i \in 0..(Len(bytes) * ByteBits - 1) : bit(bytes, i)}

RECURSIVE ones_in(_)
ones_in(b) == IF b = 0 THEN 0 ELSE (b % 2) + ones_in(b \div 2)

RECURSIVE popcount(_)
\* BitSlice::count_ones
popcount(bytes) == IF bytes = <<>> THEN 0 ELSE ones_in(Head(bytes)) + popcount(Tail(bytes))

\* A buffer whose first byte has its lowest bit set.
one_then_zeroes(n) == [i \in 1..n |-> IF i = 1 THEN 1 ELSE 0]

\* [0u8; N], vec![0u8; n]
zeroed(n) == [i \in 1..n |-> 0]

\* ---------------------------------------------------------------- filters
\* ty: "const_size" (const_size.rs BloomFilter<N, K>), "runtime_size"
\* (runtime_size.rs BloomFilter), "lib_BloomFilter" and "lib_DynBloomFilter"
\* (lib.rs). N is Len(bytes); K is k_hashes.
NoFilter == [ty |-> "none", k_hashes |-> 0, bytes |-> <<>>]
FixedTypes == {"const_size", "lib_BloomFilter"}
DynTypes == {"runtime_size", "lib_DynBloomFilter"}

\* Which HashIndexIterator the filter's module names.
gen_of(flt) == IF flt.ty \in {"const_size", "runtime_size"} THEN "common" ELSE "lib"

\* hash_count that answers with the number of bits set.
hash_count_as_count_ones(flt) == popcount(flt.bytes)

\* count_ones that counts the bits that are clear.
count_zeros(flt) == Len(flt.bytes) * ByteBits - popcount(flt.bytes)

hash_count(flt) == flt.k_hashes
as_bytes(flt) == flt.bytes
count_ones(flt) == popcount(flt.bytes)

\* Iterator::take(n) over a HashIndexIterator
take(iter, n) == [iter |-> iter, n |-> n]
take_next(t) ==
    IF t.n = 0 THEN [r |-> None(t.iter), t |-> t]
    ELSE LET r == iter_next(t.iter)
         IN  [r |-> r, t |-> [iter |-> r.it, n |-> t.n - 1]]

\* hash_indices that takes at least one index.
hash_indices_at_least_one(flt, item) ==
    take(HashIndexIterator_new(gen_of(flt), item, Len(flt.bytes) * ByteBits),
         IF hash_count(flt) = 0 THEN 1 ELSE hash_count(flt))

\* HashIndexIterator::new(item, N * 8).take(self.hash_count())
hash_indices(flt, item) ==
    take(HashIndexIterator_new(gen_of(flt), item, Len(flt.bytes) * ByteBits),
         hash_count(flt))

RECURSIVE collect(_, _)
\* The indices a Take yields, and how the walk ends.
collect(t, acc) ==
    LET s == take_next(t)
    IN  CASE s.r.tag = "None" -> [indices |-> acc, end |-> "returned"]
          [] s.r.tag = "Spin" -> [indices |-> acc, end |-> "spinning"]
          [] OTHER -> collect(s.t, Append(acc, s.r.value))

RECURSIVE set_each(_, _)
\* for i in indices { bits.set(i, true) }
set_each(bytes, t) ==
    LET s == take_next(t)
    IN  CASE s.r.tag = "None" -> [bytes |-> bytes, end |-> "returned"]
          [] s.r.tag = "Spin" -> [bytes |-> bytes, end |-> "spinning"]
          [] OTHER ->
               IF s.r.value >= Len(bytes) * ByteBits
               THEN [bytes |-> bytes, end |-> "panicked"]
               ELSE set_each(set(bytes, s.r.value), s.t)

\* insert that starts from a cleared buffer.
const_size_insert_reset(flt, item) ==
    set_each(zeroed(Len(flt.bytes)), hash_indices(flt, item))

\* insert over a bit array ordered most significant bit first.
const_size_insert_msb0(flt, item) ==
    LET at(b, k) == ((b \div Pow2(k)) % 2) * Pow2(ByteBits - 1 - k)
        reverse(b) == at(b, 0) + at(b, 1) + at(b, 2) + at(b, 3)
                      + at(b, 4) + at(b, 5) + at(b, 6) + at(b, 7)
        reversed(bytes) == [j \in 1..Len(bytes) |-> reverse(bytes[j])]
        r == set_each(reversed(flt.bytes), hash_indices(flt, item))
    IN  [bytes |-> reversed(r.bytes), end |-> r.end]

\* const_size.rs / lib.rs BloomFilter::insert
const_size_insert(flt, item) == set_each(flt.bytes, hash_indices(flt, item))

\* insert that sets one bit fewer than contains tests.
runtime_size_insert_short(flt, item) ==
    set_each(flt.bytes,
             take(HashIndexIterator_new(gen_of(flt), item, Len(flt.bytes) * ByteBits),
                  IF hash_count(flt) = 0 THEN 0 ELSE hash_count(flt) - 1))

\* insert that keeps only the bits of the item just inserted.
runtime_size_insert_reset(flt, item) ==
    set_each(zeroed(Len(flt.bytes)), hash_indices(flt, item))

\* insert whose indices depend on how many bits the filter already holds.
runtime_size_insert_by_load(flt, item) ==
    set_each(flt.bytes, hash_indices(flt, Append(item, popcount(flt.bytes))))

\* runtime_size.rs BloomFilter::insert, lib.rs DynBloomFilter::insert
runtime_size_insert(flt, item) == set_each(flt.bytes, hash_indices(flt, item))

insert(flt, item) ==
    IF flt.ty \in FixedTypes THEN const_size_insert(flt, item)
    ELSE runtime_size_insert(flt, item)

RECURSIVE all_set(_, _)
\* Iterator::all(|i| self.bits[i]): false at the first index whose bit is clear.
all_set(bytes, t) ==
    LET s == take_next(t)
    IN  CASE s.r.tag = "None" -> [value |-> TRUE, end |-> "returned"]
          [] s.r.tag = "Spin" -> [value |-> FALSE, end |-> "spinning"]
          [] OTHER ->
               IF s.r.value >= Len(bytes) * ByteBits
               THEN [value |-> FALSE, end |-> "panicked"]
               ELSE IF bit(bytes, s.r.value) THEN all_set(bytes, s.t)
               ELSE [value |-> FALSE, end |-> "returned"]

\* const_size.rs / lib.rs BloomFilter::contains
const_size_contains(flt, item) == all_set(flt.bytes, hash_indices(flt, item))

RECURSIVE contains_loop_first(_, _)
\* A loop that answers from the first index alone.
contains_loop_first(bytes, t) ==
    LET s == take_next(t)
    IN  IF s.r.tag = "Some"
        THEN IF s.r.value >= Len(bytes) * ByteBits
             THEN [value |-> FALSE, end |-> "panicked"]
             ELSE [value |-> bit(bytes, s.r.value), end |-> "returned"]
        ELSE IF s.r.tag = "Spin" THEN [value |-> FALSE, end |-> "spinning"]
        ELSE [value |-> TRUE, end |-> "returned"]

RECURSIVE contains_loop(_, _)
\* for i in indices { if !bits[i] { return false } } true
contains_loop(bytes, t) ==
    LET s == take_next(t)
    IN  IF s.r.tag = "Some"
        THEN IF s.r.value >= Len(bytes) * ByteBits
             THEN [value |-> FALSE, end |-> "panicked"]
             ELSE IF ~bit(bytes, s.r.value)
                  THEN [value |-> FALSE, end |-> "returned"]
                  ELSE contains_loop(bytes, s.t)
        ELSE IF s.r.tag = "Spin" THEN [value |-> FALSE, end |-> "spinning"]
        ELSE [value |-> TRUE, end |-> "returned"]

\* runtime_size.rs BloomFilter::contains, lib.rs DynBloomFilter::contains
runtime_size_contains(flt, item) == contains_loop(flt.bytes, hash_indices(flt, item))

contains(flt, item) ==
    IF flt.ty \in FixedTypes THEN const_size_contains(flt, item)
    ELSE runtime_size_contains(flt, item)

\* ----------------------------------------------------------- constructors
\* BloomFilter::<N, K>::new(): bits: Default::default()
new(ty, N, K) == [ty |-> ty, k_hashes |-> K, bytes |-> zeroed(N)]

\* try_from with the error's two lengths exchanged.
try_from_swapped(ty, N, K, bytes) ==
    IF Len(bytes) = N
    THEN [ok |-> TRUE, filter |-> [ty |-> ty, k_hashes |-> K, bytes |-> bytes],
          expected |-> 0, actual |-> 0]
    ELSE [ok |-> FALSE, filter |-> NoFilter, expected |-> Len(bytes), actual |-> N]

\* try_from that checks the length and then builds a blank filter.
try_from_blank(ty, N, K, bytes) ==
    IF Len(bytes) = N
    THEN [ok |-> TRUE, filter |-> [ty |-> ty, k_hashes |-> K, bytes |-> zeroed(N)],
          expected |-> 0, actual |-> 0]
    ELSE [ok |-> FALSE, filter |-> NoFilter, expected |-> N, actual |-> Len(bytes)]

\* TryFrom<Vec<u8>> for BloomFilter<N, K>: bytes.try_into() is Ok only for N bytes.
try_from(ty, N, K, bytes) ==
    IF Len(bytes) = N
    THEN [ok |-> TRUE, filter |-> [ty |-> ty, k_hashes |-> K, bytes |-> bytes],
          expected |-> 0, actual |-> 0]
    ELSE [ok |-> FALSE, filter |-> NoFilter, expected |-> N, actual |-> Len(bytes)]

\* new_with that raises a hash count of 0 to 1.
new_with_clamped(k_hashes, bytes) ==
    [ty |-> "runtime_size", k_hashes |-> IF k_hashes = 0 THEN 1 ELSE k_hashes,
     bytes |-> bytes]

\* runtime_size.rs BloomFilter::new_with
new_with(k_hashes, bytes) == [ty |-> "runtime_size", k_hashes |-> k_hashes, bytes |-> bytes]

\* ------------------------------------------------------------------ serde
\* A value of the serde data model, as a data format carries it: a byte string
\* or a sequence of u8.
Bytes(v) == [type |-> "bytes", v |-> v]
SeqOfU8(v) == [type |-> "seq", v |-> v]

\* impl Serialize for BloomFilter<N, K>: serializer.serialize_bytes(as_raw_slice())
serialize(flt) == Bytes(flt.bytes)

\* visit_bytes that keeps the first N bytes of a longer byte string.
visit_bytes_truncating(N, v) ==
    IF Len(v) >= N THEN [ok |-> TRUE, value |-> SubSeq(v, 1, N)]
    ELSE [ok |-> FALSE, value |-> <<>>]

\* utils.rs ByteArrayVisitor::<N>::visit_bytes: v.try_into() is Ok only for N bytes.
visit_bytes(N, v) ==
    IF Len(v) = N THEN [ok |-> TRUE, value |-> v]
    ELSE [ok |-> FALSE, value |-> <<>>]

\* deserializer.deserialize_bytes(ByteArrayVisitor::<N>): a byte string goes to
\* visit_bytes; the visitor has no other visit method, so that any other value
\* is an "invalid type" error of the Visitor trait's defaults.
deserialize_bytes(N, data) ==
    IF data.type = "bytes" THEN visit_bytes(N, data.v)
    ELSE [ok |-> FALSE, value |-> <<>>]

\* impl Deserialize for BloomFilter<N, K>
deserialize(ty, N, K, data) ==
    LET bytes == deserialize_bytes(N, data)
    IN  IF bytes.ok
        THEN [ok |-> TRUE, filter |-> [ty |-> ty, k_hashes |-> K, bytes |-> bytes.value]]
        ELSE [ok |-> FALSE, filter |-> NoFilter]

\* ceil of a / b for a >= 0, b > 0.
ceil_div(a, b) == (a + b - 1) \div b

\* The two build profiles: debug_assert! and the overflow checks of integer
\* arithmetic are compiled in "debug" and compiled out in "release".
Builds == {"debug", "release"}

\* usize::MAX and isize::MAX
UsizeMax == Pow2(UsizeBits) - 1
IsizeMax == Pow2(UsizeBits - 1) - 1

\* How a call ends: with a value, or in a panic.
Ok(v) == [end |-> "returned", value |-> v]
Panic == [end |-> "panicked", value |-> 0]

\* `x as usize` for a finite f64 x without fraction: saturating.
f64_as_usize(x) == IF x < 0 THEN 0 ELSE IF x > UsizeMax THEN UsizeMax ELSE x

\* a * b on usize: the product when it fits; otherwise a panic in debug and the
\* wrapped product in release.
usize_mul(build, a, b) ==
    IF a * b <= UsizeMax THEN Ok(a * b)
    ELSE IF build = "debug" THEN Panic
    ELSE Ok((a * b) % Pow2(UsizeBits))

\* usize::next_power_of_two: on overflow a panic in debug and 0 in release.
usize_next_power_of_two(build, n) ==
    IF next_power_of_two(n) <= UsizeMax THEN Ok(next_power_of_two(n))
    ELSE IF build = "debug" THEN Panic
    ELSE Ok(0)

\* False positive rates are written in hundredths: 25 is 0.25, 100 is 1.0.
FprPercents == {0, 1, 25, 50, 100}
ValidFpr(fpr) == fpr > 0 /\ fpr < 100

\* f64::ln of fpr / 100, in millionths (ln 0 is -inf and is treated where used).
ln_micro(fpr) ==
    CASE fpr = 1 -> 0 - 4605170
      [] fpr = 25 -> 0 - 1386294
      [] fpr = 50 -> 0 - 693147
      [] OTHER -> 0

\* The body of BloomParams::optimal_byte_size after its debug assertions:
\* ceil(n * ln(fpr) / -(LN_2 * LN_2) / 8) as usize; 8 * LN_2 * LN_2 is 3843624
\* millionths. ln(0) = -inf gives +inf (usize::MAX after the cast) for n > 0 and
\* NaN (0 after the cast) for n = 0; ln(1) = 0 gives 0.
byte_size_of(n_elems, fpr) ==
    IF fpr = 0 THEN (IF n_elems = 0 THEN 0 ELSE UsizeMax)
    ELSE f64_as_usize(ceil_div(n_elems * (0 - ln_micro(fpr)), 3843624))

\* BloomParams::optimal_byte_size
optimal_byte_size(build, n_elems, fpr) ==
    IF build = "debug" /\ ~(n_elems # 0 /\ ValidFpr(fpr)) THEN Panic
    ELSE Ok(byte_size_of(n_elems, fpr))

\* The body of BloomParams::optimal_k_hashes after its debug assertions:
\* max(ceil((m / n) * LN_2) as usize, 1), with LN_2 taken as 693147 millionths
\* (the f64 result is the same for every m, n in range). m / 0 is +inf for
\* m > 0 (usize::MAX after the cast) and NaN for m = 0 (0 after the cast).
optimal_k_hashes(bloom_bits, n_elems) ==
    LET k_hashes == IF n_elems = 0
                    THEN (IF bloom_bits = 0 THEN 0 ELSE UsizeMax)
                    ELSE f64_as_usize(ceil_div(bloom_bits * 693147, n_elems * 1000000))
    IN  IF k_hashes > 1 THEN k_hashes ELSE 1

\* BloomParams::optimal_k_hashes
checked_optimal_k_hashes(build, bloom_bits, n_elems) ==
    IF build = "debug" /\ (bloom_bits = 0 \/ n_elems = 0) THEN Panic
    ELSE Ok(optimal_k_hashes(bloom_bits, n_elems))

\* BloomParams { byte_size, k_hashes }, or the panic that ended the call.
Params(byte_size, k_hashes) ==
    [end |-> "returned", byte_size |-> byte_size, k_hashes |-> k_hashes]
NoParams == [end |-> "panicked", byte_size |-> 0, k_hashes |-> 0]

\* k_hashes: Self::optimal_k_hashes(byte_size * 8, n_elems)
params_for(build, byte_size, n_elems) ==
    LET bits == usize_mul(build, byte_size, ByteBits)
    IN  IF bits.end = "panicked" THEN NoParams
        ELSE LET k == checked_optimal_k_hashes(build, bits.value, n_elems)
             IN  IF k.end = "panicked" THEN NoParams
                 ELSE Params(byte_size, k.value)

\* BloomParams::new_from_fpr
BloomParams_new_from_fpr(build, n_elems, fpr) ==
    LET byte_size == optimal_byte_size(build, n_elems, fpr)
    IN  IF byte_size.end = "panicked" THEN NoParams
        ELSE params_for(build, byte_size.value, n_elems)

\* BloomParams::new_from_fpr_po2
BloomParams_new_from_fpr_po2(build, n_elems, fpr) ==
    LET byte_size == optimal_byte_size(build, n_elems, fpr)
    IN  IF byte_size.end = "panicked" THEN NoParams
        ELSE LET po2 == usize_next_power_of_two(build, byte_size.value)
             IN  IF po2.end = "panicked" THEN NoParams
                 ELSE params_for(build, po2.value, n_elems)

\* BloomParams::new_from_size
BloomParams_new_from_size(build, byte_size, n_elems) ==
    params_for(build, byte_size, n_elems)

\* vec![0u8; params.byte_size] and the struct around it: the allocation panics
\* (capacity overflow) above isize::MAX bytes.
with_zeroed_bytes(ty, params) ==
    IF params.end = "panicked" \/ params.byte_size > IsizeMax
    THEN [end |-> "panicked", filter |-> NoFilter]
    ELSE [end |-> "returned",
          filter |-> [ty |-> ty, k_hashes |-> params.k_hashes,
                      bytes |-> zeroed(params.byte_size)]]

\* BloomFilter::new_from_fpr / DynBloomFilter::new_from_fpr
new_from_fpr(build, ty, n_elems, fpr) ==
    with_zeroed_bytes(ty, BloomParams_new_from_fpr(build, n_elems, fpr))

\* BloomFilter::new_from_fpr_po2 / DynBloomFilter::new_from_fpr_po2
new_from_fpr_po2(build, ty, n_elems, fpr) ==
    with_zeroed_bytes(ty, BloomParams_new_from_fpr_po2(build, n_elems, fpr))

\* BloomFilter::new_from_size / DynBloomFilter::new_from_size
new_from_size(build, ty, bloom_bytes, n_elems) ==
    with_zeroed_bytes(ty, BloomParams_new_from_size(build, bloom_bytes, n_elems))

\* BloomFilter::get_bloom_params
get_bloom_params(flt) == Params(Len(flt.bytes), flt.k_hashes)

\* BloomParams::false_positive_rate_at: (1 - exp(-k / (m / n)))^k as f64. The
\* result is given by its class: "0", "(0,1)", "1" or "NaN".
\* m / 0 is +inf (NaN for m = 0), -k / +inf is -0, exp(-0) is 1; -k / 0 is -inf
\* (NaN for k = 0), exp(-inf) is 0; x.powi(0) is 1 for every x, NaN included.
rate_class(k_hashes, byte_size, n_elems) ==
    IF k_hashes = 0 THEN "1"
    ELSE IF byte_size = 0 THEN (IF n_elems = 0 THEN "NaN" ELSE "1")
    ELSE IF n_elems = 0 THEN "0"
    ELSE "(0,1)"

false_positive_rate_at(build, params, n_elems) ==
    IF build = "debug" /\ n_elems = 0
    THEN [end |-> "panicked", value |-> "none"]
    ELSE [end |-> "returned",
          value |-> rate_class(params.k_hashes, params.byte_size, n_elems)]

\* Width of i32, scaled like usize.
I32Bits == UsizeBits \div 2

\* `self.hash_count() as i32`: the low bits, read as a signed number.
as_i32(k) ==
    LET low == k % Pow2(I32Bits)
    IN  IF low >= Pow2(I32Bits - 1) THEN low - Pow2(I32Bits) ELSE low

RECURSIVE pow(_, _)
pow(b, e) == IF e = 0 THEN 1 ELSE b * pow(b, e - 1)

\* An f64 that is the fraction num / den, or NaN, or +inf.
Fraction(num, den) == [kind |-> "num", num |-> num, den |-> den]
NaN == [kind |-> "NaN", num |-> 0, den |-> 1]
Infinity == [kind |-> "inf", num |-> 1, den |-> 0]

\* f64::powi of the fraction num / den, 0 / 0 standing for NaN.
powi(num, den, n) ==
    IF n = 0 THEN Fraction(1, 1)
    ELSE IF den = 0 THEN NaN
    ELSE IF n > 0 THEN Fraction(pow(num, n), pow(den, n))
    ELSE IF num = 0 THEN Infinity
    ELSE Fraction(pow(den, 0 - n), pow(num, 0 - n))

\* BloomFilter::current_false_positive_rate: load = m_set / m; load.powi(k as i32)
current_false_positive_rate(flt) ==
    powi(count_ones(flt), Len(flt.bytes) * ByteBits, as_i32(hash_count(flt)))

\* wasm, gen_bloom!(name, n, k): byte_count() is `$k`.
gen_bloom_byte_count(n, k) == k
\* wasm, gen_bloom!(name, n, k): hash_count() is `$n`.
gen_bloom_hash_count(n, k) == n

\* ----------------------------------------------------- one filter: Spec
Init ==
    /\ salt \in 0..MaxSalt
    /\ f = NoFilter
    /\ born = [len |-> 0, k |-> 0, ones |-> 0]
    /\ inserted = {}
    /\ status = "idle"
    /\ res = [op |-> "none"]
    /\ pair = <<>>
    /\ cur = <<>>

Built(flt, call) ==
    /\ f' = flt
    /\ born' = [len |-> Len(as_bytes(flt)), k |-> hash_count(flt),
                ones |-> count_ones(flt)]
    /\ res' = call
    /\ UNCHANGED <<salt, inserted, status, pair, cur>>

\* Nothing has been constructed or attempted yet.
Unbuilt == f = NoFilter /\ res.op = "none"

New ==
    /\ Unbuilt
    /\ \E ty \in FixedTypes, N \in 0..MaxN, K \in 0..MaxK :
          Built(new(ty, N, K), [op |-> "new"])

TryFrom ==
    /\ Unbuilt
    /\ \E ty \in FixedTypes, N \in 0..MaxN, K \in 0..MaxK, len \in 0..(MaxN + 1) :
       \E bytes \in ByteSeqs(len) :
       \E r \in {try_from(ty, N, K, bytes)} :
          LET call == [op |-> "try_from", N |-> N, bytes |-> bytes, ok |-> r.ok,
                       expected |-> r.expected, actual |-> r.actual]
          IN  IF r.ok THEN Built(r.filter, call)
              ELSE /\ res' = call
                   /\ UNCHANGED <<salt, f, born, inserted, status, pair, cur>>

NewWith ==
    /\ Unbuilt
    /\ \E k \in 0..MaxK, len \in 0..MaxN :
       \E bytes \in ByteSeqs(len) :
          Built(new_with(k, bytes), [op |-> "new_with", k_hashes |-> k, bytes |-> bytes])

\* A constructor of sized filters has returned a filter within the bounds.
Sized(r) ==
    /\ r.end = "returned"
    /\ Len(r.filter.bytes) <= MaxN
    /\ r.filter.k_hashes <= MaxK

NewFromSize ==
    /\ Unbuilt
    /\ \E build \in Builds, ty \in DynTypes, bloom_bytes \in 1..MaxN, n_elems \in 1..MaxElems :
       \E r \in {new_from_size(build, ty, bloom_bytes, n_elems)} :
          /\ Sized(r)
          /\ Built(r.filter, [op |-> "new_from_size"])

NewFromFpr ==
    /\ Unbuilt
    /\ \E build \in Builds, ty \in DynTypes, n_elems \in 1..MaxElems,
          fpr \in {p \in FprPercents : ValidFpr(p)} :
       \E r \in {new_from_fpr(build, ty, n_elems, fpr)} :
          /\ Sized(r)
          /\ Built(r.filter, [op |-> "new_from_fpr"])

NewFromFprPo2 ==
    /\ Unbuilt
    /\ \E build \in Builds, ty \in DynTypes, n_elems \in 1..MaxElems,
          fpr \in {p \in FprPercents : ValidFpr(p)} :
       \E r \in {new_from_fpr_po2(build, ty, n_elems, fpr)} :
          /\ Sized(r)
          /\ Built(r.filter, [op |-> "new_from_fpr_po2"])

\* The constructors that promise a blank filter.
FreshOps == {"new", "new_from_fpr", "new_from_fpr_po2", "new_from_size"}

Ready == f # NoFilter /\ status = "idle"
Ended(end) == IF end = "returned" THEN "idle" ELSE end

Insert ==
    /\ Ready
    /\ \E x \in Items :
       \E r \in {insert(f, x)} :
              /\ f' = [f EXCEPT !.bytes = r.bytes]
              /\ status' = Ended(r.end)
              /\ inserted' = IF r.end = "returned" THEN inserted \cup {x} ELSE inserted
              /\ res' = [op |-> "insert", item |-> x,
                          again |-> (res.op = "insert" /\ res.item = x),
                          first |-> (res.op \in FreshOps)]
    /\ UNCHANGED <<salt, born, pair, cur>>

Contains ==
    /\ Ready
    /\ \E x \in Items :
       \E r \in {contains(f, x)} :
              /\ status' = Ended(r.end)
              /\ res' = [op |-> "contains", item |-> x, value |-> r.value]
    /\ UNCHANGED <<salt, f, born, inserted, pair, cur>>

CountOnes ==
    /\ Ready
    /\ res' = [op |-> "count_ones", value |-> count_ones(f)]
    /\ UNCHANGED <<salt, f, born, inserted, status, pair, cur>>

AsBytes ==
    /\ Ready
    /\ res' = [op |-> "as_bytes", value |-> as_bytes(f)]
    /\ UNCHANGED <<salt, f, born, inserted, status, pair, cur>>

HashCount ==
    /\ Ready
    /\ res' = [op |-> "hash_count", value |-> hash_count(f)]
    /\ UNCHANGED <<salt, f, born, inserted, status, pair, cur>>

\* runtime_size.rs only: lib.rs DynBloomFilter has no get_bloom_params.
GetBloomParams ==
    /\ Ready
    /\ f.ty = "runtime_size"
    /\ res' = [op |-> "get_bloom_params", value |-> get_bloom_params(f)]
    /\ UNCHANGED <<salt, f, born, inserted, status, pair, cur>>

CurrentFalsePositiveRate ==
    /\ Ready
    /\ f.ty \in DynTypes
    /\ res' = [op |-> "current_false_positive_rate",
               value |-> current_false_positive_rate(f)]
    /\ UNCHANGED <<salt, f, born, inserted, status, pair, cur>>

\* The wasm wrapper around deterministic_bloom::BloomFilter<n, k> (lib.rs).
Wrapped == Ready /\ f.ty = "lib_BloomFilter"

ByteCount ==
    /\ Wrapped
    /\ res' = [op |-> "byte_count",
               value |-> gen_bloom_byte_count(Len(f.bytes), f.k_hashes)]
    /\ UNCHANGED <<salt, f, born, inserted, status, pair, cur>>

WasmHashCount ==
    /\ Wrapped
    /\ res' = [op |-> "wasm_hash_count",
               value |-> gen_bloom_hash_count(Len(f.bytes), f.k_hashes)]
    /\ UNCHANGED <<salt, f, born, inserted, status, pair, cur>>

\* A filter of fixed size is serialized; the serialized value is kept in res.
Serialize ==
    /\ Ready
    /\ f.ty \in FixedTypes
    /\ res' = [op |-> "serialize", value |-> serialize(f)]
    /\ UNCHANGED <<salt, f, born, inserted, status, pair, cur>>

\* The value just serialized is deserialized as the same type BloomFilter<N, K>;
\* the result takes the place of the filter and res keeps the original.
DeserializeBack ==
    /\ Ready
    /\ res.op = "serialize"
    /\ \E r \in {deserialize(f.ty, Len(f.bytes), f.k_hashes, res.value)} :
          /\ res' = [op |-> "deserialize", back |-> TRUE, N |-> Len(f.bytes),
                     data |-> res.value, ok |-> r.ok, self |-> f]
          /\ f' = IF r.ok THEN r.filter ELSE f
    /\ UNCHANGED <<salt, born, inserted, status, pair, cur>>

\* A value from elsewhere is deserialized as BloomFilter<N, K>.
Deserialize ==
    /\ Unbuilt
    /\ \E ty \in FixedTypes, N \in 0..MaxN, K \in 0..MaxK, len \in 0..(MaxN + 1) :
       \E v \in ByteSeqs(len) :
       \E data \in {Bytes(v), SeqOfU8(v)} :
       \E r \in {deserialize(ty, N, K, data)} :
          LET call == [op |-> "deserialize", back |-> FALSE, N |-> N,
                       data |-> data, ok |-> r.ok, self |-> NoFilter]
          IN  IF r.ok THEN Built(r.filter, call)
              ELSE /\ res' = call
                   /\ UNCHANGED <<salt, f, born, inserted, status, pair, cur>>

Next ==
    \/ New
    \/ TryFrom
    \/ NewWith
    \/ NewFromSize
    \/ NewFromFpr
    \/ NewFromFprPo2
    \/ Insert
    \/ Contains
    \/ CountOnes
    \/ AsBytes
    \/ HashCount
    \/ GetBloomParams
    \/ CurrentFalsePositiveRate
    \/ ByteCount
    \/ WasmHashCount
    \/ Serialize
    \/ DeserializeBack
    \/ Deserialize

Spec == Init /\ [][Next]_vars

\* ------------------------------------- the sizing functions: SpecParams
\* The public sizing functions called with any arguments, those outside their
\* documented preconditions included, in either build.
SizeSamples == (0..MaxN) \cup {Pow2(UsizeBits - 3)}
ElemSamples == {0, 1, MaxElems}

\* A program is built one way: every call of a run is of the same build.
SameBuild(build) == IF res.op = "none" THEN TRUE ELSE res.build = build

ParamsNewFromFpr ==
    /\ \E build \in Builds, n_elems \in 0..MaxElems, fpr \in FprPercents :
          /\ SameBuild(build)
          /\ res' = [op |-> "new_from_fpr", build |-> build,
                     n_elems |-> n_elems, fpr |-> fpr,
                     params |-> BloomParams_new_from_fpr(build, n_elems, fpr),
                     filter |-> new_from_fpr(build, "runtime_size", n_elems, fpr).end]
    /\ UNCHANGED <<salt, f, born, inserted, status, pair, cur>>

ParamsNewFromFprPo2 ==
    /\ \E build \in Builds, n_elems \in 0..MaxElems, fpr \in FprPercents :
          /\ SameBuild(build)
          /\ res' = [op |-> "new_from_fpr_po2", build |-> build,
                     n_elems |-> n_elems, fpr |-> fpr,
                     params |-> BloomParams_new_from_fpr_po2(build, n_elems, fpr),
                     filter |-> new_from_fpr_po2(build, "runtime_size", n_elems, fpr).end]
    /\ UNCHANGED <<salt, f, born, inserted, status, pair, cur>>

ParamsNewFromSize ==
    /\ \E build \in Builds, byte_size \in SizeSamples, n_elems \in 0..MaxElems :
          /\ SameBuild(build)
          /\ res' = [op |-> "new_from_size", build |-> build,
                     n_elems |-> n_elems, byte_size |-> byte_size,
                     params |-> BloomParams_new_from_size(build, byte_size, n_elems),
                     filter |-> new_from_size(build, "runtime_size", byte_size, n_elems).end]
    /\ UNCHANGED <<salt, f, born, inserted, status, pair, cur>>

\* false_positive_rate_at on the parameters the last call returned.
FalsePositiveRateAt ==
    /\ res.op \in {"new_from_fpr", "new_from_fpr_po2", "new_from_size"}
    /\ res.params.end = "returned"
    /\ \E build \in {res.build}, n_elems \in ElemSamples :
          res' = [op |-> "false_positive_rate_at", build |-> build,
                  n_elems |-> n_elems, self |-> res.params,
                  rate |-> false_positive_rate_at(build, res.params, n_elems)]
    /\ UNCHANGED <<salt, f, born, inserted, status, pair, cur>>

NextParams ==
    \/ ParamsNewFromFpr
    \/ ParamsNewFromFprPo2
    \/ ParamsNewFromSize
    \/ FalsePositiveRateAt

SpecParams == Init /\ [][NextParams]_vars

\* ------------------------------------------- one iterator: SpecIter
\* The iterator's own steps: a call of next() tests the guard, then turns the
\* loop until a value is accepted.
Gens == {"common", "lib"}
MaxBits == MaxN * ByteBits

InitIter ==
    /\ salt \in 0..MaxSalt
    /\ f = NoFilter
    /\ born = [len |-> 0, k |-> 0, ones |-> 0]
    /\ inserted = {}
    /\ status = "idle"
    /\ res = [op |-> "none"]
    /\ pair = <<>>
    /\ \E gen \in Gens, item \in Items, bit_size \in 0..MaxBits :
          cur = [it |-> HashIndexIterator_new(gen, item, bit_size),
                  pc |-> "idle", calls |-> 0, turns |-> 0, yielded |-> <<>>,
                  twin |-> [it |-> HashIndexIterator_new(gen, item, bit_size),
                            from |-> 0, yielded |-> <<>>]]

\* A guard that also turns away a bit length of 1.
guarded_below_two(it) == it.gen = "common" /\ it.bit_size <= 1

\* Whether next() returns None before its loop.
guarded(it) == it.gen = "common" /\ it.bit_size = 0

\* next() is called and returns None at its guard.
NextNone ==
    /\ cur.pc \in {"idle", "none"}
    /\ guarded(cur.it)
    /\ cur.calls < MaxRound
    /\ next(cur.it).tag = "None"
    /\ cur' = [cur EXCEPT !.pc = "none", !.calls = @ + 1, !.turns = 0]
    /\ UNCHANGED <<salt, f, born, inserted, status, res, pair>>

\* next() is called and enters its loop.
NextEnter ==
    /\ cur.pc \in {"idle", "none"}
    /\ ~guarded(cur.it)
    /\ cur.it.index < MaxRound
    /\ cur' = [cur EXCEPT !.pc = "loop", !.calls = @ + 1, !.turns = 0]
    /\ UNCHANGED <<salt, f, born, inserted, status, res, pair>>

\* One turn of the loop: the value is returned or rejected.
LoopTurn ==
    /\ cur.pc = "loop"
    /\ cur.it.index < MaxRound
    /\ \E a \in {attempt(cur.it)} :
          cur' = [cur EXCEPT !.it = a.it,
                               !.turns = @ + 1,
                               !.pc = IF a.accepted THEN "idle" ELSE "loop",
                               !.yielded = IF a.accepted THEN Append(@, a.value) ELSE @]
    /\ UNCHANGED <<salt, f, born, inserted, status, res, pair>>

\* #[derive(Clone)]: between two calls the iterator is cloned; the clone takes
\* the place of the second iterator and starts where the first one stands.
Clone ==
    /\ cur.pc \in {"idle", "none"}
    /\ cur.twin.it # cur.it
    /\ cur' = [cur EXCEPT !.twin = [it |-> cur.it, from |-> Len(cur.yielded),
                                     yielded |-> <<>>]]
    /\ UNCHANGED <<salt, f, born, inserted, status, res, pair>>

\* A whole call of next() on the second iterator that returns Some(value).
TwinNext ==
    /\ \E r \in {iter_next(cur.twin.it)} :
          /\ r.tag = "Some"
          /\ cur' = [cur EXCEPT !.twin.it = r.it,
                                !.twin.yielded = Append(@, r.value)]
    /\ UNCHANGED <<salt, f, born, inserted, status, res, pair>>

NextIter ==
    \/ NextNone
    \/ NextEnter
    \/ LoopTurn
    \/ Clone
    \/ TwinNext

SpecIter == InitIter /\ [][NextIter]_vars

\* ------------------------------------- take(count), to its end: SpecTake
\* hash_indices(item) drained by a for loop or collect(): Take calls next()
\* count times. What xxh3 returns for a round is any hash here, and the
\* fairness of HashAccepted says that the hash does not stay out of range for
\* ever when some hash is in range.
HashSamples(it) ==
    {0, it.bit_size, HashSpace - 1}
    \cup (IF it.bit_size > 0 THEN {it.bit_size - 1} ELSE {})

\* `hash % bit_size_po2` for a sampled hash.
reduced(it, hash) == as_usize(hash) % next_power_of_two(it.bit_size)

InitTake ==
    /\ salt \in 0..MaxSalt
    /\ f = NoFilter
    /\ born = [len |-> 0, k |-> 0, ones |-> 0]
    /\ inserted = {}
    /\ status = "idle"
    /\ res = [op |-> "none"]
    /\ pair = <<>>
    /\ \E gen \in Gens, item \in Items, bit_size \in 0..MaxBits, count \in 0..MaxK :
          cur = [it |-> HashIndexIterator_new(gen, item, bit_size),
                 pc |-> "idle", n |-> count, count |-> count, yielded |-> <<>>]

\* Take::next with n > 0: n -= 1, then the inner next(), which returns None at
\* its guard or enters its loop.
TakeNext ==
    /\ cur.pc = "idle"
    /\ cur.n > 0
    /\ cur' = [cur EXCEPT !.n = @ - 1,
                          !.pc = IF guarded(cur.it) THEN "none" ELSE "loop"]
    /\ UNCHANGED <<salt, f, born, inserted, status, res, pair>>

\* Take::next with n = 0: None, without calling the inner iterator.
TakeEnd ==
    /\ cur.pc = "idle"
    /\ cur.n = 0
    /\ cur' = [cur EXCEPT !.pc = "exhausted"]
    /\ UNCHANGED <<salt, f, born, inserted, status, res, pair>>

\* A turn of the loop whose value is out of range: the next round follows. The
\* round counter is capped so that the calls still due have rounds left.
HashRejected ==
    /\ cur.pc = "loop"
    /\ cur.it.index + cur.n + 1 < MaxRound
    /\ \E hash \in HashSamples(cur.it) :
          /\ ~(reduced(cur.it, hash) < cur.it.bit_size)
          /\ cur' = [cur EXCEPT !.it.index = @ + 1]
    /\ UNCHANGED <<salt, f, born, inserted, status, res, pair>>

\* A turn of the loop whose value is in range: next() returns Some(value).
HashAccepted ==
    /\ cur.pc = "loop"
    /\ \E hash \in HashSamples(cur.it) :
          /\ reduced(cur.it, hash) < cur.it.bit_size
          /\ cur' = [cur EXCEPT !.it.index = @ + 1,
                                !.pc = "idle",
                                !.yielded = Append(@, reduced(cur.it, hash))]
    /\ UNCHANGED <<salt, f, born, inserted, status, res, pair>>

NextTake ==
    \/ TakeNext
    \/ TakeEnd
    \/ HashRejected
    \/ HashAccepted

SpecTake ==
    /\ InitTake /\ [][NextTake]_vars
    /\ WF_vars(TakeNext) /\ WF_vars(TakeEnd) /\ WF_vars(HashAccepted)

\* --------------------------------------------- two filters: SpecPair
EmptyBag == [x \in Items |-> 0]
RECURSIVE bag_size_over(_, _)
bag_size_over(bag, S) ==
    IF S = {} THEN 0
    ELSE LET x == CHOOSE y \in S : TRUE IN bag[x] + bag_size_over(bag, S \ {x})
bag_size(bag) == bag_size_over(bag, Items)

\* Filters as their constructors leave them: all bits clear.
FreshFilters ==
    {new(ty, N, K) : ty \in FixedTypes, N \in 0..MaxN, K \in 0..MaxK}
    \cup {new_from_size("release", c[1], c[2], c[3]).filter :
              c \in {d \in DynTypes \X (1..MaxN) \X (1..MaxElems) :
                        Sized(new_from_size("release", d[1], d[2], d[3]))}}
    \cup {new_with(k, zeroed(N)) : k \in 0..MaxK, N \in 0..MaxN}

InitPair ==
    /\ salt \in 0..MaxSalt
    /\ f = NoFilter
    /\ born = [len |-> 0, k |-> 0, ones |-> 0]
    /\ inserted = {}
    /\ status = "idle"
    /\ res = [op |-> "none"]
    /\ cur = <<>>
    /\ \E flt \in FreshFilters :
          pair = [i \in 1..2 |-> [flt |-> flt, bag |-> EmptyBag, status |-> "idle"]]

PairInsert ==
    /\ \E i \in 1..2, x \in Items :
          /\ pair[i].status = "idle"
          /\ bag_size(pair[i].bag) < MaxInserts
          /\ \E r \in {insert(pair[i].flt, x)} :
                pair' = [pair EXCEPT
                           ![i].flt.bytes = r.bytes,
                           ![i].status = Ended(r.end),
                           ![i].bag = IF r.end = "returned"
                                      THEN [@ EXCEPT ![x] = @ + 1] ELSE @]
    /\ UNCHANGED <<salt, f, born, inserted, status, res, cur>>

NextPair ==
    \/ PairInsert

SpecPair == InitPair /\ [][NextPair]_vars

\* ------------------------------- the two variants in step: SpecVariants
\* A const_size BloomFilter<N, K> and a runtime_size filter of N zero bytes and
\* k_hashes = K receive the same calls, one after the other.
InitVariants ==
    /\ salt \in 0..MaxSalt
    /\ f = NoFilter
    /\ born = [len |-> 0, k |-> 0, ones |-> 0]
    /\ inserted = {}
    /\ status = "idle"
    /\ res = [op |-> "none"]
    /\ cur = <<>>
    /\ \E N \in 0..MaxN, K \in 0..MaxK :
          pair = <<[flt |-> new("const_size", N, K), bag |-> EmptyBag, status |-> "idle"],
                   [flt |-> new_with(K, zeroed(N)), bag |-> EmptyBag, status |-> "idle"]>>

BothIdle == pair[1].status = "idle" /\ pair[2].status = "idle"

VariantsInsert ==
    /\ BothIdle
    /\ bag_size(pair[1].bag) < MaxInserts
    /\ \E x \in Items :
       \E r1 \in {insert(pair[1].flt, x)}, r2 \in {insert(pair[2].flt, x)} :
          /\ pair' = [pair EXCEPT
                        ![1].flt.bytes = r1.bytes,
                        ![1].status = Ended(r1.end),
                        ![1].bag = IF r1.end = "returned"
                                   THEN [@ EXCEPT ![x] = @ + 1] ELSE @,
                        ![2].flt.bytes = r2.bytes,
                        ![2].status = Ended(r2.end),
                        ![2].bag = IF r2.end = "returned"
                                   THEN [@ EXCEPT ![x] = @ + 1] ELSE @]
          /\ res' = [op |-> "insert", item |-> x]
    /\ UNCHANGED <<salt, f, born, inserted, status, cur>>

VariantsContains ==
    /\ BothIdle
    /\ \E x \in Items :
          res' = [op |-> "contains", item |-> x,
                  fixed |-> contains(pair[1].flt, x),
                  dynamic |-> contains(pair[2].flt, x)]
    /\ UNCHANGED <<salt, f, born, inserted, status, pair, cur>>

VariantsCountOnes ==
    /\ BothIdle
    /\ res' = [op |-> "count_ones",
               fixed |-> count_ones(pair[1].flt),
               dynamic |-> count_ones(pair[2].flt)]
    /\ UNCHANGED <<salt, f, born, inserted, status, pair, cur>>

NextVariants ==
    \/ VariantsInsert
    \/ VariantsContains
    \/ VariantsCountOnes

SpecVariants == InitVariants /\ [][NextVariants]_vars

\* ------------------------- index arithmetic on two targets: SpecTargets
\* usize has the width of the hash on a 64 bit target and half of it on a 32
\* bit target (wasm32).
Targets == {"wasm32", "x86_64"}
usize_bits_of(target) == IF target = "wasm32" THEN HashBits \div 2 ELSE HashBits

\* The largest bit_size a 32 bit target can hold.
MaxBits32 == Pow2(usize_bits_of("wasm32")) - 1

\* usize::next_power_of_two on a target: on overflow a panic in debug and 0 in
\* release.
next_power_of_two_on(target, build, n) ==
    IF next_power_of_two(n) <= Pow2(usize_bits_of(target)) - 1
    THEN Ok(next_power_of_two(n))
    ELSE IF build = "debug" THEN Panic
    ELSE Ok(0)

\* One call of common.rs HashIndexIterator::next on a target, for the hash that
\* xxh3 returns in the first round: the guard, bit_size.next_power_of_two(),
\* `hash as usize` (the low bits), `hash % bit_size_po2` (a panic in every
\* build for a divisor of 0), the test.
first_round_on(target, build, bit_size, hash) ==
    LET bit_size_po2 == next_power_of_two_on(target, build, bit_size)
    IN  IF bit_size = 0 THEN [end |-> "returned", tag |-> "None", value |-> 0]
        ELSE IF bit_size_po2.end = "panicked"
        THEN [end |-> "panicked", tag |-> "next_power_of_two", value |-> 0]
        ELSE IF bit_size_po2.value = 0
        THEN [end |-> "panicked", tag |-> "remainder", value |-> 0]
        ELSE LET value == (hash % Pow2(usize_bits_of(target))) % bit_size_po2.value
             IN  [end |-> "returned",
                  tag |-> IF value < bit_size THEN "Some" ELSE "rejected",
                  value |-> value]

InitTargets ==
    /\ salt \in 0..MaxSalt
    /\ f = NoFilter
    /\ born = [len |-> 0, k |-> 0, ones |-> 0]
    /\ inserted = {}
    /\ status = "idle"
    /\ res = [op |-> "none"]
    /\ pair = <<>>
    /\ \E build \in Builds, bit_size \in 0..MaxBits32 :
          cur = [build |-> build, bit_size |-> bit_size]

\* The same round on both targets, for any hash.
FirstRound ==
    /\ \E hash \in 0..(HashSpace - 1) :
          res' = [op |-> "first_round", hash |-> hash,
                  wasm32 |-> first_round_on("wasm32", cur.build, cur.bit_size, hash),
                  x86_64 |-> first_round_on("x86_64", cur.build, cur.bit_size, hash)]
    /\ UNCHANGED <<salt, f, born, inserted, status, pair, cur>>

NextTargets ==
    \/ FirstRound

SpecTargets == InitTargets /\ [][NextTargets]_vars

\* ------------------------------------------------------ auxiliary invariants
\* No insert or contains ends by indexing past the buffer (holds in Spec).
NoOutOfRangeAccess == status # "panicked"

\* A call that is still in the rejection loop at the round bound belongs to a
\* filter of 0 bytes (holds in Spec): for bit_size > 0 every call returned.
SpinOnlyWhenEmpty == status = "spinning" => Len(f.bytes) = 0

\* new_from_fpr_po2 within its precondition rounds up to the next power of two
\* and takes k_hashes from the rounded size whenever the rounded size in bits
\* fits usize (holds in SpecParams).
Po2RoundingWhenItFits ==
    (/\ res.op = "new_from_fpr_po2"
     /\ res.n_elems # 0 /\ ValidFpr(res.fpr)
     /\ next_power_of_two(byte_size_of(res.n_elems, res.fpr)) * ByteBits <= UsizeMax)
    => /\ res.params.end = "returned"
       /\ res.params.byte_size = next_power_of_two(byte_size_of(res.n_elems, res.fpr))
       /\ res.params.k_hashes
             = optimal_k_hashes(res.params.byte_size * ByteBits, res.n_elems)

\* A sizing call within its precondition whose sizes fit usize returns
\* parameters that are both at least 1 (holds in SpecParams).
ParamsAtLeastOneWithinPrecondition ==
    (/\ res.op \in {"new_from_fpr", "new_from_fpr_po2", "new_from_size"}
     /\ res.params.end = "returned"
     /\ res.n_elems # 0
     /\ IF res.op = "new_from_size"
        THEN res.byte_size # 0 /\ res.byte_size * ByteBits <= UsizeMax
        ELSE /\ ValidFpr(res.fpr)
             /\ next_power_of_two(byte_size_of(res.n_elems, res.fpr)) * ByteBits
                   <= UsizeMax)
    => (res.params.byte_size >= 1 /\ res.params.k_hashes >= 1)

\* current_false_positive_rate of a filter of at least one byte is the
\* fraction (count_ones / total_bits)^k_hashes, between 0 and 1 (holds in Spec).
RateOfNonEmptyFilter ==
    (res.op = "current_false_positive_rate" /\ Len(f.bytes) > 0)
    => /\ res.value.kind = "num"
       /\ res.value.num = pow(count_ones(f), hash_count(f))
       /\ res.value.den = pow(Len(f.bytes) * ByteBits, hash_count(f))
       /\ res.value.num <= res.value.den

\* For a bit length whose next power of two fits the usize of the 32 bit
\* target, both targets return the same value and decide alike (holds in
\* SpecTargets).
TargetsAgreeWhenPo2Fits ==
    (res.op = "first_round" /\ next_power_of_two(cur.bit_size) <= MaxBits32)
    => (res.wasm32 = res.x86_64 /\ res.wasm32.end = "returned")

\* Reducing the truncated hash gives what reducing the whole hash gives, for
\* every power of two up to that of the 32 bit width (holds in SpecTargets).
TruncationKeepsTheRemainder ==
    res.op = "first_round"
    => \A P \in {next_power_of_two(cur.bit_size)} :
          (res.hash % Pow2(usize_bits_of("wasm32"))) % P = res.hash % P

\* ------------------------------------------------------------------ claims
\* C1: no false negatives. Once insert(x) has returned, contains(x) returns
\* true in every later state, whatever else was inserted before or after.
C1_NoFalseNegatives ==
    \A x \in inserted : contains(f, x) = [value |-> TRUE, end |-> "returned"]

\* A runtime sized filter of 24 bits holding all three items answers true.
C1_Witness ==
    /\ f.ty = "runtime_size" /\ Len(f.bytes) = MaxN /\ f.k_hashes = MaxK
    /\ inserted = Items
    /\ res.op = "contains" /\ res.value
    /\ count_ones(f) < Len(f.bytes) * ByteBits

\* C2: two filters built alike that received the same items, in the same order
\* or any other, hold the same bytes.
C2_OrderIndependent ==
    (/\ pair[1].bag = pair[2].bag
     /\ pair[1].status = "idle" /\ pair[2].status = "idle")
    => as_bytes(pair[1].flt) = as_bytes(pair[2].flt)

\* Both filters hold two different items and some bits.
C2_Witness ==
    /\ pair[1].bag = pair[2].bag
    /\ bag_size(pair[1].bag) = MaxInserts
    /\ \E x \in Items : pair[1].bag[x] = 1
    /\ pair[1].status = "idle" /\ pair[2].status = "idle"
    /\ count_ones(pair[1].flt) > 1

\* C3: every index the iterator yields for a bit length M > 0 is in 0..M-1.
C3_IndexInRange ==
    \A i \in 1..Len(cur.yielded) :
        cur.yielded[i] >= 0 /\ cur.yielded[i] < cur.it.bit_size

\* Two indices were yielded for a bit length that is no power of two, after a rejection.
C3_Witness ==
    /\ Len(cur.yielded) = 2
    /\ cur.it.bit_size > 0
    /\ next_power_of_two(cur.it.bit_size) # cur.it.bit_size
    /\ cur.it.index > 2

\* C4: with bit_size = 0, next() returns None at once: the rejection loop is
\* never entered and nothing is yielded.
C4_ZeroLengthYieldsNothing ==
    cur.it.bit_size = 0 => (cur.pc # "loop" /\ cur.turns = 0 /\ cur.yielded = <<>>)

\* C5: a filter of 0 bytes answers contains(x) = true for every item, and the
\* call returns.
C5_EmptyContainsAll ==
    (f # NoFilter /\ Len(f.bytes) = 0)
    => \A x \in Items : contains(f, x) = [value |-> TRUE, end |-> "returned"]

\* C6: try_from succeeds exactly when the length is N; otherwise the error
\* carries expected = N and actual = the length, and there is no filter.
C6_TryFromLength ==
    res.op = "try_from"
    => /\ res.ok <=> Len(res.bytes) = res.N
       /\ ~res.ok => (res.expected = res.N /\ res.actual = Len(res.bytes) /\ f = NoFilter)
       /\ res.ok => f # NoFilter

\* try_from of N + 1 bytes has failed.
C6_Witness ==
    /\ res.op = "try_from" /\ ~res.ok
    /\ res.N = MaxN /\ Len(res.bytes) = MaxN + 1

\* C7: try_from of N bytes succeeds and as_bytes() gives the same bytes back.
C7_TryFromRoundTrip ==
    (res.op = "try_from" /\ Len(res.bytes) = res.N)
    => (res.ok /\ f.ty \in FixedTypes /\ as_bytes(f) = res.bytes)

\* try_from of N bytes, not all zero, has succeeded.
C7_Witness ==
    /\ res.op = "try_from" /\ res.ok
    /\ res.N = MaxN /\ \E i \in 1..Len(res.bytes) : res.bytes[i] # 0

\* C8: new_with(k, b) has hash_count() = k and as_bytes() = b, and any runtime
\* sized filter rebuilt from its hash_count() and as_bytes() equals itself and
\* answers contains alike.
C8_NewWithRoundTrip ==
    /\ res.op = "new_with" => (hash_count(f) = res.k_hashes /\ as_bytes(f) = res.bytes)
    /\ f.ty = "runtime_size"
       => /\ new_with(hash_count(f), as_bytes(f)) = f
          /\ \A x \in Items :
                contains(new_with(hash_count(f), as_bytes(f)), x) = contains(f, x)

\* new_with(K, b) has just built a filter from bytes that are not all zero.
C8_Witness ==
    /\ res.op = "new_with" /\ res.k_hashes = MaxK
    /\ Len(res.bytes) = MaxN /\ res.bytes[1] # 0
    /\ f.ty = "runtime_size"

\* C9: a bit that is 1 stays 1 in every later state.
C9_BitsMonotone ==
    [][\A i \in 0..(Len(f.bytes) * ByteBits - 1) :
          bit(f.bytes, i) => (i < Len(f'.bytes) * ByteBits /\ bit(f'.bytes, i))]_vars

\* A filter built with bits set has taken inserts that set more.
C9_Witness ==
    /\ f.ty = "const_size"
    /\ inserted # {}
    /\ born.len > 0
    /\ count_ones(f) > Cardinality(inserted) * f.k_hashes

\* C10: as_bytes().len() and hash_count() are what they were after construction.
C10_SizeAndHashCountFixed ==
    f # NoFilter => (Len(as_bytes(f)) = born.len /\ hash_count(f) = born.k)

\* After two inserts and a count_ones call.
C10_Witness ==
    /\ f # NoFilter /\ born.len = MaxN /\ born.k = MaxK
    /\ Cardinality(inserted) = 2
    /\ res.op = "count_ones" /\ res.value > 0

\* C11: insert is idempotent. Inserting x a second time, right after inserting
\* x, leaves the buffer exactly as the first insert left it.
C11_InsertIdempotent ==
    \A x \in Items :
        LET once == insert(f, x)
        IN  once.end = "returned"
            => insert([f EXCEPT !.bytes = once.bytes], x) = once

\* The same item was inserted twice in a row into a filter of 24 bits that
\* also holds bits of other origin.
C11_Witness ==
    /\ res.op = "insert" /\ res.again /\ status = "idle"
    /\ Len(f.bytes) = MaxN /\ f.k_hashes = MaxK
    /\ count_ones(f) > f.k_hashes

\* C12: contains(x) is true exactly when every one of the first K indices
\* generated for x over the filter's bit length is set; the all-quantifier of
\* the fixed variant and the early-return loop of the dynamic variant compute
\* this same predicate.
C12_ContainsIsAllSet ==
    f # NoFilter =>
    \A x \in Items :
        LET idx == collect(hash_indices(f, x), <<>>)
            every == \A i \in 1..Len(idx.indices) : bit(f.bytes, idx.indices[i])
        IN  idx.end = "returned"
            => /\ const_size_contains(f, x) = [value |-> every, end |-> "returned"]
               /\ runtime_size_contains(f, x) = [value |-> every, end |-> "returned"]
               /\ contains(f, x).value = every

\* contains has answered false for an item whose first index is set and whose
\* second index is clear.
C12_Witness ==
    /\ res.op = "contains" /\ ~res.value /\ status = "idle"
    /\ f.k_hashes = MaxK
    /\ LET idx == collect(hash_indices(f, res.item), <<>>)
       IN  /\ idx.end = "returned" /\ Len(idx.indices) = MaxK
           /\ bit(f.bytes, idx.indices[1])
           /\ ~bit(f.bytes, idx.indices[MaxK])

\* C13: the index generator is a pure, restartable function of the item and the
\* bit length. A second fresh iterator over the same item and bit length, and
\* any clone taken between two calls, yields what the first iterator yields
\* from the same round on, however the calls on the two interleave.
C13_Restartable ==
    \A i \in 1..Len(cur.twin.yielded) :
        cur.twin.from + i <= Len(cur.yielded)
        => cur.twin.yielded[i] = cur.yielded[cur.twin.from + i]

\* A clone taken after the first value, following a rejection, has yielded the
\* second value too.
C13_Witness ==
    /\ cur.twin.from = 1 /\ Len(cur.twin.yielded) = 1
    /\ Len(cur.yielded) = 2
    /\ cur.it.index > 2
    /\ cur.twin.it = cur.it

\* C14: a filter of at least one byte that new, new_from_fpr, new_from_fpr_po2
\* or new_from_size has just built has count_ones() = 0; after exactly one
\* insert into it count_ones() is the number of distinct indices among the
\* item's K indices, which is at most k_hashes.
C14_CountOnesBoundary ==
    /\ (res.op \in FreshOps /\ Len(f.bytes) > 0) => count_ones(f) = 0
    /\ (res.op = "insert" /\ res.first /\ status = "idle" /\ Len(f.bytes) > 0)
       => LET idx == collect(hash_indices(f, res.item), <<>>)
              distinct == {idx.indices[i] : i \in 1..Len(idx.indices)}
          IN  /\ idx.end = "returned"
              /\ Len(idx.indices) = hash_count(f)
              /\ count_ones(f) = Cardinality(distinct)
              /\ count_ones(f) <= hash_count(f)

\* The first insert into a filter built by new_from_fpr_po2 has set K bits.
C14_Witness ==
    /\ res.op = "insert" /\ res.first /\ status = "idle"
    /\ born.len > 1 /\ born.k = MaxK
    /\ f.ty = "runtime_size"
    /\ count_ones(f) = MaxK

\* C15: for n_elems > 0 and 0 < fpr < 1, new_from_fpr_po2 returns a byte_size
\* that is the smallest power of two not below the byte_size of new_from_fpr,
\* and the k_hashes that optimal_k_hashes gives for that rounded size.
C15_Po2Rounding ==
    (/\ res.op = "new_from_fpr_po2"
     /\ res.n_elems # 0 /\ ValidFpr(res.fpr))
    => /\ res.params.end = "returned"
       /\ res.params.byte_size = next_power_of_two(byte_size_of(res.n_elems, res.fpr))
       /\ res.params.k_hashes
             = optimal_k_hashes(res.params.byte_size * ByteBits, res.n_elems)

\* C16: every BloomParams the public interface hands out has byte_size >= 1
\* and k_hashes >= 1, those of get_bloom_params of any filter included.
C16_ParamsAtLeastOne ==
    res.op = "get_bloom_params"
    => (res.value.byte_size >= 1 /\ res.value.k_hashes >= 1)

\* C17: a sizing call outside its precondition (n_elems = 0, fpr not in (0,1),
\* a bit size of 0) ends in a panic in every build: it returns neither
\* parameters nor a filter nor a rate.
C17_PreconditionsFailFast ==
    /\ (/\ res.op \in {"new_from_fpr", "new_from_fpr_po2"}
        /\ (res.n_elems = 0 \/ ~ValidFpr(res.fpr)))
       => (res.params.end = "panicked" /\ res.filter = "panicked")
    /\ (/\ res.op = "new_from_size"
        /\ (res.n_elems = 0 \/ res.byte_size = 0))
       => (res.params.end = "panicked" /\ res.filter = "panicked")
    /\ (res.op = "false_positive_rate_at" /\ res.n_elems = 0)
       => res.rate.end = "panicked"

C19_CurrentRate ==
    res.op = "current_false_positive_rate"
    => LET m == Len(f.bytes) * ByteBits
           ones == count_ones(f)
           k == hash_count(f)
       IN  /\ res.value.kind = "num"
           /\ res.value.den > 0
           /\ 0 <= res.value.num /\ res.value.num <= res.value.den
           /\ m > 0
           /\ res.value.num * pow(m, k) = pow(ones, k) * res.value.den

\* C20: in the wasm wrapper of BloomFilter<n, k>, byte_count() is the length of
\* as_bytes() and hash_count() is the filter's number of hashes per insert.
C20_WasmCounts ==
    /\ res.op = "byte_count" => res.value = Len(as_bytes(f))
    /\ res.op = "wasm_hash_count" => res.value = hash_count(f)

\* C21: serialization round trip of the fixed variant. The serialized form of
\* a filter is the byte string of its N buffer bytes and nothing else;
\* deserializing it as the same type succeeds and gives a filter equal to the
\* original; deserializing a byte string whose length is not N fails and
\* produces no filter.
C21_SerdeRoundTrip ==
    /\ res.op = "serialize"
       => (res.value = Bytes(as_bytes(f)) /\ Len(res.value.v) = born.len)
    /\ (res.op = "deserialize" /\ res.back) => (res.ok /\ f = res.self)
    /\ (res.op = "deserialize" /\ res.data.type = "bytes" /\ Len(res.data.v) # res.N)
       => (~res.ok /\ f = NoFilter)

\* A filter of 3 bytes holding two items has gone through serialize and
\* deserialize.
C21_Witness ==
    /\ res.op = "deserialize" /\ res.back /\ res.ok
    /\ Len(f.bytes) = MaxN /\ f.k_hashes = MaxK
    /\ Cardinality(inserted) = 2 /\ count_ones(f) > 1

\* C22: rejection sampling order. With P the smallest power of two >= M, what
\* the iterator has yielded after r rounds is the in-order subsequence of
\* hash(item, 0) mod P, ..., hash(item, r - 1) mod P of the values below M; a
\* step advances the round counter by one or leaves it alone, nothing is
\* yielded without advancing it, and it is never set back, between calls
\* either; when M is a power of two the i-th index yielded is
\* hash(item, i) mod M and no round is skipped.
C22_RejectionOrder ==
    /\ [](cur.yielded = accepted_rounds(cur.it.item, cur.it.bit_size, cur.it.index))
    /\ [](cur.it.bit_size = next_power_of_two(cur.it.bit_size)
          => /\ Len(cur.yielded) = cur.it.index
             /\ \A i \in 1..Len(cur.yielded) :
                   cur.yielded[i]
                      = xxh3_64_with_seed(cur.it.item, i - 1) % cur.it.bit_size)
    /\ [][/\ cur'.it.index \in {cur.it.index, cur.it.index + 1}
          /\ cur'.yielded # cur.yielded => cur'.it.index = cur.it.index + 1]_vars

\* Two indices were yielded for a bit length that is no power of two, with two
\* rejected rounds, in separate calls of next().
C22_Witness ==
    /\ Len(cur.yielded) = 2 /\ cur.calls >= 2
    /\ cur.it.bit_size # next_power_of_two(cur.it.bit_size)
    /\ cur.it.index = 4

\* C23: the frame of insert. When insert(x) has returned, the set of 1-bits is
\* the previous set united with the K indices generated for x over the
\* filter's bit length (K of them whenever the filter has a byte); every other
\* bit has its previous value, and the type, the length and k_hashes are
\* unchanged.
C23_InsertFrame ==
    [][(res'.op = "insert" /\ status' = "idle")
       => \A idx \in {collect(hash_indices(f, res'.item), <<>>)} :
          \A indices \in {{idx.indices[i] : i \in 1..Len(idx.indices)}} :
              /\ idx.end = "returned"
              /\ Len(f.bytes) > 0 => Len(idx.indices) = f.k_hashes
              /\ set_bits(f'.bytes) = set_bits(f.bytes) \cup indices
              /\ \A i \in 0..(Len(f.bytes) * ByteBits - 1) :
                    i \notin indices => (bit(f'.bytes, i) <=> bit(f.bytes, i))
              /\ Len(f'.bytes) = Len(f.bytes)
              /\ f'.k_hashes = f.k_hashes /\ f'.ty = f.ty]_vars

\* An insert of a second item into a filter of 24 bits that was built from
\* bytes with bits set has returned.
C23_Witness ==
    /\ res.op = "insert" /\ ~res.first /\ ~res.again /\ status = "idle"
    /\ Len(f.bytes) = MaxN /\ f.k_hashes = MaxK
    /\ Cardinality(inserted) = 2
    /\ count_ones(f) > 2 * MaxK

\* C24: new_with accepts k_hashes = 0 and builds the filter; on such a filter,
\* whatever its buffer holds, insert(x) returns and leaves the buffer as it
\* was and contains(x) returns true, for every x.
C24_ZeroHashes ==
    /\ (res.op = "new_with" /\ res.k_hashes = 0)
       => (f # NoFilter /\ hash_count(f) = 0 /\ as_bytes(f) = res.bytes)
    /\ (f.ty = "runtime_size" /\ hash_count(f) = 0)
       => \A x \in Items :
             /\ insert(f, x) = [bytes |-> f.bytes, end |-> "returned"]
             /\ contains(f, x) = [value |-> TRUE, end |-> "returned"]

\* A filter built by new_with(0, b), b of 3 bytes with some bits set and some
\* clear, has taken an insert and then answered contains with true.
C24_Witness ==
    /\ f.ty = "runtime_size" /\ hash_count(f) = 0
    /\ res.op = "contains" /\ res.value /\ status = "idle"
    /\ inserted # {}
    /\ Len(f.bytes) = MaxN
    /\ count_ones(f) > 0 /\ count_ones(f) < Len(f.bytes) * ByteBits

RECURSIVE lsb0_byte(_)
\* The value of a byte whose bits at the positions in S are 1, position 0 being
\* the least significant bit.
lsb0_byte(S) ==
    IF S = {} THEN 0
    ELSE LET p == CHOOSE q \in S : TRUE IN Pow2(p) + lsb0_byte(S \ {p})

\* The indices of the items a filter has received.
indices_of_bag(flt, bag) ==
    UNION {{idx[i] : i \in 1..Len(idx)} :
              idx \in {collect(hash_indices(flt, x), <<>>).indices :
                          x \in {y \in Items : bag[y] > 0}}}

\* C25: the two variants are equivalent. A const_size BloomFilter<N, K> and a
\* runtime_size filter of N zero bytes and k_hashes = K that received the
\* same inserts have the same as_bytes() after every step, in which bit index
\* i is bit i mod 8 (least significant first) of byte i div 8, and they return
\* the same contains and count_ones results.
C25_VariantsEquivalent ==
    /\ as_bytes(pair[1].flt) = as_bytes(pair[2].flt)
    /\ pair[1].status = pair[2].status /\ pair[1].bag = pair[2].bag
    /\ \A v \in 1..2 :
       \A S \in {indices_of_bag(pair[v].flt, pair[v].bag)} :
       \A j \in 1..Len(pair[v].flt.bytes) :
          as_bytes(pair[v].flt)[j]
             = lsb0_byte({i % ByteBits : i \in {q \in S : q \div ByteBits = j - 1}})
    /\ res.op \in {"contains", "count_ones"} => res.fixed = res.dynamic
    /\ \A x \in Items : contains(pair[1].flt, x) = contains(pair[2].flt, x)

\* Both variants, of 3 bytes and K = 2, hold two different items and have
\* answered a contains call with false.
C25_Witness ==
    /\ Len(pair[1].flt.bytes) = MaxN /\ pair[1].flt.k_hashes = MaxK
    /\ pair[1].flt.ty = "const_size" /\ pair[2].flt.ty = "runtime_size"
    /\ bag_size(pair[1].bag) = 2 /\ \E x \in Items : pair[1].bag[x] = 1
    /\ count_ones(pair[2].flt) > MaxK
    /\ res.op = "contains" /\ ~res.fixed.value /\ ~res.dynamic.value

RECURSIVE byte_or(_, _, _)
\* a | b on two bytes of n bits.
byte_or(a, b, n) ==
    IF n = 0 THEN 0
    ELSE (IF a % 2 = 1 \/ b % 2 = 1 THEN 1 ELSE 0)
         + 2 * byte_or(a \div 2, b \div 2, n - 1)

RECURSIVE or_all(_, _)
\* The bitwise OR of the buffers in B, all as long as the buffer acc.
or_all(B, acc) ==
    IF B = {} THEN acc
    ELSE LET b == CHOOSE c \in B : TRUE
         IN  or_all(B \ {b}, [j \in 1..Len(acc) |-> byte_or(acc[j], b[j], ByteBits)])

\* C26: insert is a union homomorphism. The buffer of a fresh filter that has
\* received the items of a set S, in any order and with any repetitions, is
\* the bitwise OR of the buffers that inserting each item of S alone into a
\* fresh filter of the same parameters gives.
C26_UnionHomomorphism ==
    \A v \in 1..2 :
        pair[v].status = "idle"
        => \A fresh \in {[pair[v].flt EXCEPT !.bytes = zeroed(Len(pair[v].flt.bytes))]} :
           \A S \in {{x \in Items : pair[v].bag[x] > 0}} :
              /\ \A x \in S : insert(fresh, x).end = "returned"
              /\ as_bytes(pair[v].flt)
                    = or_all({insert(fresh, x).bytes : x \in S}, as_bytes(fresh))

\* One filter of 24 bits holds two different items, the other the same item
\* twice.
C26_Witness ==
    /\ Len(pair[1].flt.bytes) = MaxN /\ pair[1].flt.k_hashes = MaxK
    /\ pair[1].status = "idle" /\ pair[2].status = "idle"
    /\ \E x, y \in Items : x # y /\ pair[1].bag[x] = 1 /\ pair[1].bag[y] = 1
    /\ \E x \in Items : pair[2].bag[x] = 2
    /\ count_ones(pair[1].flt) > count_ones(pair[2].flt)

\* C27: count_ones() never decreases from one step to the next, whatever the
\* operation; an insert raises it by at most k_hashes; it is never above
\* 8 * byte length, and in a filter that was built with no bit set it is at
\* most d * k_hashes, d being the number of distinct items inserted.
C27_CountOnesGrowth ==
    /\ [][/\ count_ones(f') >= count_ones(f)
          /\ res'.op = "insert" => count_ones(f') <= count_ones(f) + hash_count(f)]_vars
    /\ [](f # NoFilter
          => /\ count_ones(f) <= ByteBits * Len(as_bytes(f))
             /\ born.ones = 0
                => count_ones(f) <= Cardinality(inserted) * hash_count(f))

\* A filter built blank holds two different items whose indices collide: fewer
\* than 2 * K bits are set, and one item was inserted again.
C27_Witness ==
    /\ f # NoFilter /\ born.ones = 0 /\ born.k = MaxK /\ born.len > 0
    /\ res.op = "insert" /\ res.again /\ status = "idle"
    /\ Cardinality(inserted) = 2
    /\ count_ones(f) > MaxK /\ count_ones(f) < 2 * MaxK

\* C28: platform independence of the index arithmetic. For every hash and
\* every bit length M whose next power of two P is at most that of the 32 bit
\* width, reducing the hash truncated to the 32 bit usize gives what reducing
\* the whole hash gives, and the 32 bit and the 64 bit target return the same
\* index and take the same accept/reject decision.
C28_PlatformIndependent ==
    (/\ res.op = "first_round"
     /\ next_power_of_two(cur.bit_size) <= Pow2(usize_bits_of("wasm32")))
    => /\ (res.hash % Pow2(usize_bits_of("wasm32"))) % next_power_of_two(cur.bit_size)
             = res.hash % next_power_of_two(cur.bit_size)
       /\ res.wasm32.end = "returned" /\ res.x86_64.end = "returned"
       /\ res.wasm32.value = res.x86_64.value
       /\ res.wasm32.tag = res.x86_64.tag

====
